---- MODULE Spec2Model ----
(***************************************************************************)
(* A model of src/dashboard.py: the S&P 500 dashboard script.  One run of  *)
(* the script is a walk of the program counter pc through the Dashboard    *)
(* branch (lines 126-267): date inputs, the yf.download fetch, the date    *)
(* filter, the sidebar flags, the four indicator steps, the confluence     *)
(* levels, the summary metrics, and the except handler.                    *)
(*                                                                         *)
(* Floats are modelled as exact rationals with the IEEE special values     *)
(* NaN and +/-inf; the sign of a zero is not kept (x/0 and x/-0 differ     *)
(* only in the sign of the inf, which 100 - 100/(1 + rs) does not see).    *)
(* Prices are whole cents.  The square root of the rolling std and the     *)
(* steps of the exponential average are rounded to a fixed unit.  Python   *)
(* objects live in a heap so that "the same DataFrame object" and "a new   *)
(* DataFrame" differ.  Chart rendering, the table, the volume chart and    *)
(* the CSV download are not modelled.                                      *)
(***************************************************************************)
EXTENDS Integers, Sequences, FiniteSets, TLC

(***************************************************************************)
(* Bounds of the model.                                                    *)
(***************************************************************************)
MaxBars == 51          \* longest daily series the provider returns
MaxStart == 1          \* start dates are days 0..MaxStart
SlotsPerDay == 3       \* intraday timestamps per day (slot 0 is midnight)
MaxFnBars == 5         \* longest series given to a function on its own
MaxFnWindow == 4       \* largest window given to calculate_rsi on its own

(***************************************************************************)
(* Program constants.                                                      *)
(***************************************************************************)
MA20Window == 20
MA50Window == 50
BBWindow == 20
BBNumStd == 2
RSIWindow == 14
MACDShort == 12
MACDLong == 26
MACDSignal == 9
RoundDigits == 2          \* round(x, 2)

(***************************************************************************)
(* Floats.                                                                 *)
(***************************************************************************)
Abs(x) == IF x < 0 THEN -x ELSE x

RECURSIVE Gcd(_, _)
Gcd(a, b) == IF b = 0 THEN a ELSE Gcd(b, a % b)

NaN == [k |-> "nan", n |-> 0, d |-> 1]
Inf(s) == [k |-> "inf", n |-> s, d |-> 1]

\* the float n/d (d > 0), in lowest terms
Rat(n, d) ==
    LET g == Gcd(Abs(n), d)
    IN  [k |-> "num", n |-> n \div g, d |-> d \div g]

Num(i) == Rat(i, 1)
IsNum(x) == x.k = "num"
IsNaN(x) == x.k = "nan"
Sign(x) == IF x.n > 0 THEN 1 ELSE IF x.n < 0 THEN -1 ELSE 0

\* a < b on floats: False whenever an operand is NaN
FLt(a, b) ==
    IF IsNaN(a) \/ IsNaN(b) THEN FALSE
    ELSE IF a.k = "inf" THEN a.n < 0 /\ ~(b.k = "inf" /\ b.n < 0)
    ELSE IF b.k = "inf" THEN b.n > 0
    ELSE a.n * b.d < b.n * a.d

FNeg(a) == IF IsNaN(a) THEN NaN ELSE [a EXCEPT !.n = -a.n]

FAdd(a, b) ==
    IF IsNaN(a) \/ IsNaN(b) THEN NaN
    ELSE IF a.k = "inf" /\ b.k = "inf" THEN (IF a.n = b.n THEN a ELSE NaN)
    ELSE IF a.k = "inf" THEN a
    ELSE IF b.k = "inf" THEN b
    ELSE LET l == (a.d \div Gcd(a.d, b.d)) * b.d
         IN  Rat(a.n * (l \div a.d) + b.n * (l \div b.d), l)

FSub(a, b) == FAdd(a, FNeg(b))

FMul(a, b) ==
    IF IsNaN(a) \/ IsNaN(b) THEN NaN
    ELSE IF a.k = "inf" \/ b.k = "inf"
         THEN (IF Sign(a) * Sign(b) = 0 THEN NaN ELSE Inf(Sign(a) * Sign(b)))
    ELSE Rat(a.n * b.n, a.d * b.d)

\* a division that guards the zero divisor and gives NaN for it
FDivGuarded(a, b) ==
    IF IsNaN(a) \/ IsNaN(b) THEN NaN
    ELSE IF a.k = "inf" THEN (IF b.k = "inf" THEN NaN
                              ELSE Inf(a.n * (IF b.n < 0 THEN -1 ELSE 1)))
    ELSE IF b.k = "inf" THEN Num(0)
    ELSE IF b.n = 0 THEN NaN
    ELSE Rat(a.n * b.d * Sign(b), a.d * Abs(b.n))

\* numpy float division: x/0 is +/-inf, 0/0 is NaN, nothing raises
FDiv(a, b) ==
    IF IsNaN(a) \/ IsNaN(b) THEN NaN
    ELSE IF a.k = "inf" THEN (IF b.k = "inf" THEN NaN
                              ELSE Inf(a.n * (IF b.n < 0 THEN -1 ELSE 1)))
    ELSE IF b.k = "inf" THEN Num(0)
    ELSE IF b.n = 0 THEN (IF a.n = 0 THEN NaN ELSE Inf(Sign(a)))
    ELSE Rat(a.n * b.d * Sign(b), a.d * Abs(b.n))

RECURSIVE Pow10(_)
Pow10(e) == IF e = 0 THEN 1 ELSE 10 * Pow10(e - 1)
RoundDigitsScale == Pow10(RoundDigits)

\* round(x, 2), the values it can give: the nearest 1/100; NaN and inf
\* stay.  x stands for a binary float, and x * 100 is taken in floats
\* before it is rounded to an integer.  A float whose value is off a
\* decimal tie k.5 / 100 rounds as its value does.  A float that stands
\* for a tie (1.255, 1.015, 1.405) is the binary number next to it, below
\* or above according to its bits and to the order in which the sum behind
\* it was added, so it rounds down (1.255 -> 1.25, 1.015 -> 1.01,
\* 1.405 -> 1.4) or up: both neighbours are outcomes.
Round2(x) ==
    IF ~IsNum(x) THEN {x}
    ELSE LET t == x.n * RoundDigitsScale
             q == t \div x.d
             r == t % x.d
         IN  IF 2 * r = x.d
             THEN {Rat(q, RoundDigitsScale), Rat(q + 1, RoundDigitsScale)}
             ELSE {Rat(IF 2 * r > x.d THEN q + 1 ELSE q, RoundDigitsScale)}

\* a price given in whole cents
Price(c) == Rat(c, 100)
\* the whole cents of a price
CentsOf(x) == (x.n * 100) \div x.d

\* floor of the square root
RECURSIVE ISqrtFrom(_, _)
ISqrtFrom(x, r) == IF (r + 1) * (r + 1) > x THEN r ELSE ISqrtFrom(x, r + 1)
RECURSIVE ISqrtBetween(_, _, _)
ISqrtBetween(x, lo, hi) ==
    IF hi - lo <= 1 THEN ISqrtFrom(x, lo)
    ELSE LET m == (lo + hi) \div 2
         IN  IF m * m <= x THEN ISqrtBetween(x, m, hi) ELSE ISqrtBetween(x, lo, m)
ISqrt(x) == ISqrtBetween(x, 0, 46340)

(***************************************************************************)
(* Series (pandas Series as a sequence of floats) and their transforms.    *)
(***************************************************************************)
\* the sum of s[lo..hi], added pairwise
RECURSIVE SumRange(_, _, _)
SumRange(s, lo, hi) ==
    IF lo > hi THEN Num(0)
    ELSE IF lo = hi THEN s[lo]
    ELSE LET m == (lo + hi) \div 2
         IN  FAdd(SumRange(s, lo, m), SumRange(s, m + 1, hi))
SumSeq(s) == SumRange(s, 1, Len(s))

RECURSIVE SumIntRange(_, _, _)
SumIntRange(s, lo, hi) ==
    IF lo > hi THEN 0
    ELSE IF lo = hi THEN s[lo]
    ELSE LET m == (lo + hi) \div 2
         IN  SumIntRange(s, lo, m) + SumIntRange(s, m + 1, hi)
SumInt(s) == SumIntRange(s, 1, Len(s))

HasNaN(s) == \E i \in 1..Len(s) : ~IsNum(s[i])

\* positions i-w+1..i of s (1-based), as rolling(window=w) sees them at i
Window(s, i, w) == SubSeq(s, i - w + 1, i)

\* Series.rolling(window=w).mean(): min_periods = w, so NaN until w values
\* are in the window and NaN while the window holds a NaN
RollingMean(s, w) ==
    [i \in 1..Len(s) |->
        IF i < w \/ HasNaN(Window(s, i, w)) THEN NaN
        ELSE FDiv(SumSeq(Window(s, i, w)), Num(w))]

\* the scale of a standard deviation: the largest of 4, 8, ..., 1024 whose
\* square times N stays a 31-bit number
RECURSIVE StdScale(_, _)
StdScale(N, K) ==
    IF K >= 1024 \/ K * K * N >= 536870912 THEN K ELSE StdScale(N, 2 * K)

\* Series.rolling(window=w).std(): sample standard deviation (ddof = 1).
\* With c the window's prices in cents, S their sum and N the sum of the
\* (w*c - S)^2 the value is sqrt(N / (w - 1)) / (100 * w), that is
\* sqrt(K^2 * N / (w - 1)) units of 1 / (100 * w * K).  The square root is
\* irrational as a rule and a float holds it to 53 bits; here a value that
\* is a whole number of units is kept as it is, and any other, which lies
\* strictly between r and r + 1 units, is kept as r + 1/2 units, at most
\* half a unit off.  K is a multiple of 4, so every 1/100 and every tie
\* between two of them is an even number of units away from a mean of w
\* prices, and mean +/- 2 * std is below, at or above each of them as the
\* float is.
RollingStd(s, w) ==
    [i \in 1..Len(s) |->
        IF i < w \/ HasNaN(Window(s, i, w)) THEN NaN
        ELSE IF w = 1 THEN NaN
        ELSE LET c == [j \in 1..w |-> CentsOf(Window(s, i, w)[j])]
                 S == SumInt(c)
                 N == SumInt([j \in 1..w |-> (w * c[j] - S) * (w * c[j] - S)])
                 K == StdScale(N, 4)
                 M == K * K * N
                 r == ISqrt(M \div (w - 1))
             IN  IF M % (w - 1) = 0 /\ r * r = M \div (w - 1)
                 THEN Rat(r, 100 * w * K)
                 ELSE Rat(2 * r + 1, 2 * 100 * w * K)]

\* Series.diff(): the first entry is NaN
Diff(s) ==
    [i \in 1..Len(s) |-> IF i = 1 THEN NaN ELSE FSub(s[i], s[i - 1])]

\* a where that leaves a NaN entry as it is
WherePositiveKeepsNaN(s) ==
    [i \in 1..Len(s) |->
        IF IsNaN(s[i]) \/ FLt(Num(0), s[i]) THEN s[i] ELSE Num(0)]

\* delta.where(delta > 0, 0): keeps entries with delta > 0, 0 elsewhere;
\* the comparison is False on NaN, so a NaN entry becomes 0
WherePositive(s) ==
    [i \in 1..Len(s) |-> IF FLt(Num(0), s[i]) THEN s[i] ELSE Num(0)]

\* delta.where(delta < 0, 0)
WhereNegative(s) ==
    [i \in 1..Len(s) |-> IF FLt(s[i], Num(0)) THEN s[i] ELSE Num(0)]

NegSeq(s) == [i \in 1..Len(s) |-> FNeg(s[i])]

\* the unit of the exponential average: 1 / EmaScale
EmaScale == Pow10(6)

RoundDiv(a, b) == (2 * a + b) \div (2 * b)

\* Series.ewm(span=span, adjust=False).mean(): y[1] = x[1] and
\* y[i] = alpha * x[i] + (1 - alpha) * y[i-1], alpha = 2 / (span + 1);
\* each step is rounded to 1 / EmaScale.  EwmFold extends the scaled
\* averages acc of s[1..lo-1] by those of s[lo..hi], first half first
\* (left holds the m averages of s[1..m]).
RECURSIVE EwmFold(_, _, _, _, _)
EwmFold(s, span, acc, lo, hi) ==
    IF lo > hi THEN acc
    ELSE IF lo = hi
    THEN LET x == s[lo].n * (EmaScale \div s[lo].d)
         IN  Append(acc, IF lo = 1 THEN x
                         ELSE RoundDiv(2 * x + (span - 1) * acc[lo - 1], span + 1))
    ELSE LET m == (lo + hi) \div 2
             left == EwmFold(s, span, acc, lo, m)
         IN  IF Len(left) = m THEN EwmFold(s, span, left, m + 1, hi) ELSE <<>>

EwmMean(s, span) ==
    LET y == EwmFold(s, span, <<>>, 1, Len(s))
    IN  [i \in 1..Len(s) |-> Rat(y[i], EmaScale)]

(***************************************************************************)
(* DataFrames: an index of timestamps and named columns of equal length.   *)
(* A timestamp is day * SlotsPerDay + slot; a date is a day.               *)
(***************************************************************************)
BaseColumns == {"Close", "High", "Low"}

NRows(f) == Len(f.index)
\* DataFrame.empty
Empty(f) == NRows(f) = 0
\* data[name] = s on the object itself
SetCol(f, name, s) == [f EXCEPT !.cols = (name :> s) @@ f.cols]

\* Timestamp(date): the date at midnight
DateToTs(day) == day * SlotsPerDay

\* hist.loc[start:end]: the rows with start <= timestamp <= end, the dates
\* taken at midnight, as a new frame
Loc(f, start, end) ==
    LET keep == {i \in 1..NRows(f) :
                    DateToTs(start) <= f.index[i] /\ f.index[i] <= DateToTs(end)}
        lo == IF keep = {} THEN 1 ELSE CHOOSE i \in keep : \A j \in keep : i <= j
        hi == lo + Cardinality(keep) - 1
    IN  [index |-> SubSeq(f.index, lo, hi),
         cols  |-> [c \in DOMAIN f.cols |-> SubSeq(f.cols[c], lo, hi)]]

\* Series.iloc[-1]
Last(s) == s[Len(s)]

\* Series.max() and Series.min(): NaN entries are skipped
MaxSeq(s) ==
    LET nums == {s[i] : i \in {j \in 1..Len(s) : ~IsNaN(s[j])}}
    IN  IF nums = {} THEN NaN
        ELSE CHOOSE x \in nums : \A y \in nums : ~FLt(x, y)
MinSeq(s) ==
    LET nums == {s[i] : i \in {j \in 1..Len(s) : ~IsNaN(s[j])}}
    IN  IF nums = {} THEN NaN
        ELSE CHOOSE x \in nums : \A y \in nums : ~FLt(y, x)

(***************************************************************************)
(* The market-data provider: the series yf.download may hand back.         *)
(***************************************************************************)
Patterns == {"flat", "up", "zig"}

\* the Close of bar i in cents
CloseCents(pattern, i) ==
    CASE pattern = "flat" -> 100
      [] pattern = "up"   -> 100 + i
      [] pattern = "zig"  -> 100 + 2 * ((i * 7) % 5)

\* n bars with the timestamps ts
BarsAt(ts, pattern) ==
    [index |-> ts,
     cols  |-> [c \in BaseColumns |->
                 [i \in 1..Len(ts) |->
                    CASE c = "Close" -> Price(CloseCents(pattern, i))
                      [] c = "High"  -> Price(CloseCents(pattern, i) + 1)
                      [] c = "Low"   -> Price(CloseCents(pattern, i) - 1)]]]

\* daily bars on days 0..n-1
DailyBars(n, pattern) == BarsAt([i \in 1..n |-> DateToTs(i - 1)], pattern)

\* 5-minute bars of one day, from slot first on
IntradayBars(day, first, n, pattern) ==
    BarsAt([i \in 1..n |-> DateToTs(day) + first + i - 1], pattern)

(***************************************************************************)
(* Technical indicators (lines 22-42).  Each writes its columns on the     *)
(* frame it is given and returns that frame.                               *)
(***************************************************************************)
RsiColumn(close, window) ==
    LET delta == Diff(close)
        gain  == RollingMean(WherePositive(delta), window)
        loss  == RollingMean(NegSeq(WhereNegative(delta)), window)
        rs    == [i \in 1..Len(close) |-> FDiv(gain[i], loss[i])]
    IN  [i \in 1..Len(close) |->
            FSub(Num(100), FDiv(Num(100), FAdd(Num(1), rs[i])))]

calculate_rsi(data, window) ==
    SetCol(data, "RSI", RsiColumn(data.cols["Close"], window))

calculate_macd(data, short, long, signal) ==
    LET close     == data.cols["Close"]
        short_ema == EwmMean(close, short)
        long_ema  == EwmMean(close, long)
        macd      == [i \in 1..Len(close) |-> FSub(short_ema[i], long_ema[i])]
    IN  SetCol(SetCol(data, "MACD", macd), "Signal", EwmMean(macd, signal))

calculate_bollinger_bands(data, window, num_std) ==
    LET close        == data.cols["Close"]
        rolling_mean == RollingMean(close, window)
        rolling_std  == RollingStd(close, window)
        upper == [i \in 1..Len(close) |->
                    FAdd(rolling_mean[i], FMul(rolling_std[i], Num(num_std)))]
        lower == [i \in 1..Len(close) |->
                    FSub(rolling_mean[i], FMul(rolling_std[i], Num(num_std)))]
    IN  SetCol(SetCol(data, "BB_Upper", upper), "BB_Lower", lower)

\* lines 183-184 of the dashboard
MovingAverages(data) ==
    LET close == data.cols["Close"]
    IN  SetCol(SetCol(data, "MA20", RollingMean(close, MA20Window)),
               "MA50", RollingMean(close, MA50Window))

(***************************************************************************)
(* Python's set() and sorted() on floats.                                  *)
(***************************************************************************)
SeqRange(l) == {l[i] : i \in 1..Len(l)}
CountNaN(l) == Cardinality({i \in 1..Len(l) : IsNaN(l[i])})

\* every order of the numbers in nums followed or interleaved by k NaNs
RECURSIVE Orders(_, _)
Orders(nums, k) ==
    IF nums = {} /\ k = 0 THEN {<<>>}
    ELSE UNION ({ {<<x>> \o o : o \in Orders(nums \ {x}, k)} : x \in nums }
                \cup (IF k > 0
                      THEN { {<<NaN>> \o o : o \in Orders(nums, k - 1)} }
                      ELSE {}))

\* list(set(l)): equal numbers collapse to one; every NaN is an object of
\* its own, hashed by identity and unequal to itself, so each stays; the
\* iteration order follows the hashes and is not fixed by the values
PySetOrders(l) == Orders({x \in SeqRange(l) : ~IsNaN(x)}, CountNaN(l))

Reverse(l) == [i \in 1..Len(l) |-> l[Len(l) + 1 - i]]

\* listsort's count_run: the length of the run that starts the list
RECURSIVE RunEnd(_, _, _)
RunEnd(l, i, desc) ==
    IF i = Len(l) THEN i
    ELSE IF desc = FLt(l[i + 1], l[i]) THEN RunEnd(l, i + 1, desc)
    ELSE i

\* binarysort's search: where pivot goes among l[lo..hi-1]
RECURSIVE InsertPos(_, _, _, _)
InsertPos(l, pivot, lo, hi) ==
    IF lo >= hi THEN lo
    ELSE LET p == lo + ((hi - lo) \div 2)
         IN  IF FLt(pivot, l[p]) THEN InsertPos(l, pivot, lo, p)
             ELSE InsertPos(l, pivot, p + 1, hi)

RECURSIVE BinarySort(_, _)
BinarySort(l, start) ==
    IF start > Len(l) THEN l
    ELSE LET pos == InsertPos(l, l[start], 1, start)
             moved == SubSeq(l, 1, pos - 1) \o <<l[start]>>
                      \o SubSeq(l, pos, start - 1)
                      \o SubSeq(l, start + 1, Len(l))
         IN  BinarySort(moved, start + 1)

\* sorted(l) for a list shorter than 64: the first run, reversed when it
\* descends, then binary insertion of the rest, every comparison by <
PySorted(l) ==
    IF Len(l) < 2 THEN l
    ELSE LET desc == FLt(l[2], l[1])
             n    == RunEnd(l, 2, desc)
             run  == IF desc THEN Reverse(SubSeq(l, 1, n)) ELSE SubSeq(l, 1, n)
         IN  BinarySort(run \o SubSeq(l, n + 1, Len(l)), n + 1)

(***************************************************************************)
(* get_confluence_levels (lines 44-52).                                    *)
(***************************************************************************)
ConfluenceCandidates(hist, show_ma, show_bb) ==
    (IF show_ma
     THEN <<Last(hist.cols["MA20"]), Last(hist.cols["MA50"])>> ELSE <<>>)
    \o (IF show_bb
        THEN <<Last(hist.cols["BB_Upper"]), Last(hist.cols["BB_Lower"])>>
        ELSE <<>>)
    \o <<MaxSeq(hist.cols["Close"]), MinSeq(hist.cols["Close"])>>

\* [round(x, 2) for x in levels]: the lists it can give
RECURSIVE RoundAll(_)
RoundAll(l) ==
    IF l = <<>> THEN {<<>>}
    ELSE {<<h>> \o t : h \in Round2(Head(l)), t \in RoundAll(Tail(l))}

\* the lists get_confluence_levels can return
get_confluence_levels(hist, show_ma, show_bb) ==
    {PySorted(o) :
        o \in UNION {PySetOrders(r) :
                       r \in RoundAll(ConfluenceCandidates(hist, show_ma, show_bb))}}

(***************************************************************************)
(* The state of one run of the script.                                     *)
(***************************************************************************)
VARIABLES
    pc,                 \* the position of the run
    page,               \* st.sidebar.radio("Go to:", ...)
    selected,           \* st.selectbox("Select a company:", ...)
    start_date,         \* st.date_input("Start date"), a day
    end_date,           \* st.date_input("End date"), a day
    flags,              \* the sidebar checkboxes
    heap,               \* the DataFrame objects, by identity
    hist,               \* the object hist names (0: unbound)
    filtered_hist,      \* the object filtered_hist names (0: unbound)
    confluence_levels,  \* the list confluence_levels, once bound
    metrics,            \* the four st.metric values, once shown
    st_out,             \* what the run reported through st.warning / st.error
    fetch_calls,        \* the number of calls of yf.download
    exc,                \* the exception being propagated ("none": none)
    call                \* a function applied on its own: name, window, argument, result

vars == <<pc, page, selected, start_date, end_date, flags, heap, hist, filtered_hist,
          confluence_levels, metrics, st_out, fetch_calls, exc, call>>

FlagNames == {"show_ma", "show_bb", "show_rsi", "show_macd", "show_confluence"}
NoFlags == [f \in FlagNames |-> FALSE]
NoLevels == [set |-> FALSE, levels |-> <<>>]
NoMetrics == [set |-> FALSE, start_price |-> NaN, current_price |-> NaN,
              high |-> NaN, low |-> NaN]
NoCall == [fn |-> "none", window |-> 0, arg |-> 0, ret |-> 0]

\* a try block that starts only after the fetch
TryCoversFromFilter(line) == line >= 159 /\ line <= 264

\* the try block of the dashboard spans lines 132-265
TryCovers(line) == line >= 133 /\ line <= 264

\* where control goes when the statement at line raises
Raise(line) == IF TryCovers(line) THEN "except" ELSE "crashed"

\* a no-data check that looks at the fetched frame
CheckedFrameHist == heap[hist]

\* the frame the no-data check at line 161 looks at
CheckedFrame == heap[filtered_hist]

\* the end dates tried: the first day, and a day after every bar
EndDays == {0, MaxBars}

\* the lengths of the daily series tried: the shortest ones, the longest,
\* each indicator's window and one bar less, 4 and 5, 10 and 30
BarCounts ==
    {n \in 0..MaxBars :
        \/ n <= 2
        \/ n = MaxBars
        \/ n \in {10, 30}
        \/ \E t \in {5, RSIWindow, MA20Window, MACDLong, MA50Window} :
              n \in (t - 1)..t}

\* what open("sp500_tickers.txt") can meet: a file with tickers, a file
\* without a non-blank line, no readable file
TickerFiles == {"listed", "blank", "unreadable"}

\* lines 10-17: the tickers read, or [] after st.error when reading raised
get_sp500_tickers(file) ==
    [tickers |-> IF file = "listed" THEN <<"Apple Inc. (AAPL)">> ELSE <<>>,
     failed  |-> file = "unreadable"]

Pages == {"Dashboard", "Info"}

Init ==
    /\ pc = "page"
    /\ page \in Pages
    /\ selected = "None"
    /\ start_date = 0
    /\ end_date = 0
    /\ flags = NoFlags
    /\ heap = <<>>
    /\ hist = 0
    /\ filtered_hist = 0
    /\ confluence_levels = NoLevels
    /\ metrics = NoMetrics
    /\ st_out = <<>>
    /\ fetch_calls = 0
    /\ exc = "none"
    /\ call = NoCall

\* lines 64-121: the Info page shows its text and the script ends
InfoPage ==
    /\ pc = "page"
    /\ page = "Info"
    /\ pc' = "done"
    /\ UNCHANGED <<page, selected, start_date, end_date, flags, heap, hist,
                   filtered_hist, confluence_levels, metrics, st_out,
                   fetch_calls, exc, call>>

\* lines 126-142: the tickers are loaded and one is selected, "None" when
\* there is none, and then the whole try block is skipped; with a ticker
\* the two date inputs are read
LoadTickers ==
    /\ pc = "page"
    /\ page = "Dashboard"
    /\ \E file \in TickerFiles :
         LET r == get_sp500_tickers(file)
         IN  /\ st_out' = IF r.failed THEN Append(st_out, "error_tickers")
                          ELSE st_out
             /\ selected' = IF r.tickers # <<>> THEN r.tickers[1] ELSE "None"
    /\ IF selected' # "None"
       THEN /\ start_date' \in 0..MaxStart
            /\ end_date' \in EndDays
            /\ pc' = "fetch"
       ELSE /\ UNCHANGED <<start_date, end_date>>
            /\ pc' = "done"
    /\ UNCHANGED <<page, flags, heap, hist, filtered_hist, confluence_levels,
                   metrics, fetch_calls, exc, call>>

\* lines 146-151 or 156: yf.download raises
FetchRaises ==
    /\ pc = "fetch"
    /\ fetch_calls' = fetch_calls + 1
    /\ exc' = "ProviderError"
    /\ pc' = Raise(IF start_date = end_date THEN 146 ELSE 156)
    /\ UNCHANGED <<page, selected, start_date, end_date, flags, heap, hist, filtered_hist,
                   confluence_levels, metrics, st_out, call>>

\* lines 145-154: one day asked for, 5-minute bars fetched
FetchIntraday ==
    /\ pc = "fetch"
    /\ start_date = end_date
    /\ \E first \in 0..(SlotsPerDay - 1), pattern \in Patterns :
         \E n \in 0..(SlotsPerDay - first) :
            /\ heap' = Append(heap, IntradayBars(start_date, first, n, pattern))
            /\ hist' = Len(heap) + 1
            /\ st_out' = IF Empty(heap'[hist'])
                         THEN Append(st_out, "warning_no_intraday")
                         ELSE st_out
    /\ fetch_calls' = fetch_calls + 1
    /\ pc' = "filter"
    /\ UNCHANGED <<page, selected, start_date, end_date, flags, filtered_hist,
                   confluence_levels, metrics, exc, call>>

\* lines 155-157: daily bars fetched
FetchDaily ==
    /\ pc = "fetch"
    /\ start_date # end_date
    /\ \E n \in BarCounts, pattern \in Patterns :
            /\ heap' = Append(heap, DailyBars(n, pattern))
            /\ hist' = Len(heap) + 1
    /\ fetch_calls' = fetch_calls + 1
    /\ pc' = "filter"
    /\ UNCHANGED <<page, selected, start_date, end_date, flags, filtered_hist,
                   confluence_levels, metrics, st_out, exc, call>>

\* line 159: filtered_hist = hist.loc[start_date:end_date], a new object
Filter ==
    /\ pc = "filter"
    /\ heap' = Append(heap, Loc(heap[hist], start_date, end_date))
    /\ filtered_hist' = Len(heap) + 1
    /\ pc' = "check_empty"
    /\ UNCHANGED <<page, selected, start_date, end_date, flags, hist, confluence_levels,
                   metrics, st_out, fetch_calls, exc, call>>

\* lines 161-163: the no-data warning, or on to the indicators
CheckEmpty ==
    /\ pc = "check_empty"
    /\ IF Empty(CheckedFrame)
       THEN /\ st_out' = Append(st_out, "warning_no_data")
            /\ pc' = "updated"
       ELSE /\ st_out' = st_out
            /\ pc' = "sidebar"
    /\ UNCHANGED <<page, selected, start_date, end_date, flags, heap, hist, filtered_hist,
                   confluence_levels, metrics, fetch_calls, exc, call>>

\* lines 164-179: the table and the sidebar checkboxes
Sidebar ==
    /\ pc = "sidebar"
    /\ flags' \in [FlagNames -> BOOLEAN]
    /\ pc' = "ma"
    /\ UNCHANGED <<page, selected, start_date, end_date, heap, hist, filtered_hist,
                   confluence_levels, metrics, st_out, fetch_calls, exc, call>>

\* lines 182-184
CalcMA ==
    /\ pc = "ma"
    /\ heap' = IF flags.show_ma
               THEN [heap EXCEPT ![filtered_hist] = MovingAverages(@)]
               ELSE heap
    /\ pc' = "bb"
    /\ UNCHANGED <<page, selected, start_date, end_date, flags, hist, filtered_hist,
                   confluence_levels, metrics, st_out, fetch_calls, exc, call>>

\* lines 185-186: the function's result is the object it was given
CalcBB ==
    /\ pc = "bb"
    /\ heap' = IF flags.show_bb
               THEN [heap EXCEPT ![filtered_hist] =
                        calculate_bollinger_bands(@, BBWindow, BBNumStd)]
               ELSE heap
    /\ pc' = "rsi"
    /\ UNCHANGED <<page, selected, start_date, end_date, flags, hist, filtered_hist,
                   confluence_levels, metrics, st_out, fetch_calls, exc, call>>

\* lines 187-188
CalcRSI ==
    /\ pc = "rsi"
    /\ heap' = IF flags.show_rsi
               THEN [heap EXCEPT ![filtered_hist] = calculate_rsi(@, RSIWindow)]
               ELSE heap
    /\ pc' = "macd"
    /\ UNCHANGED <<page, selected, start_date, end_date, flags, hist, filtered_hist,
                   confluence_levels, metrics, st_out, fetch_calls, exc, call>>

\* lines 189-190
CalcMACD ==
    /\ pc = "macd"
    /\ heap' = IF flags.show_macd
               THEN [heap EXCEPT ![filtered_hist] =
                        calculate_macd(@, MACDShort, MACDLong, MACDSignal)]
               ELSE heap
    /\ pc' = "confluence"
    /\ UNCHANGED <<page, selected, start_date, end_date, flags, hist, filtered_hist,
                   confluence_levels, metrics, st_out, fetch_calls, exc, call>>

\* lines 191-192; .iloc[-1] of a frame without rows raises IndexError
Confluence ==
    /\ pc = "confluence"
    /\ IF ~flags.show_confluence
       THEN /\ pc' = "summary"
            /\ UNCHANGED <<confluence_levels, exc>>
       ELSE IF Empty(heap[filtered_hist])
       THEN /\ pc' = Raise(192)
            /\ exc' = "IndexError"
            /\ UNCHANGED confluence_levels
       ELSE /\ \E lv \in get_confluence_levels(heap[filtered_hist],
                                               flags.show_ma, flags.show_bb) :
                 confluence_levels' = [set |-> TRUE, levels |-> lv]
            /\ pc' = "summary"
            /\ UNCHANGED exc
    /\ UNCHANGED <<page, selected, start_date, end_date, flags, heap, hist, filtered_hist,
                   metrics, st_out, fetch_calls, call>>

\* lines 249-253: the four metrics, each formatted with two decimals
Summary ==
    /\ pc = "summary"
    /\ IF Empty(heap[filtered_hist])
       THEN /\ pc' = Raise(250)
            /\ exc' = "IndexError"
            /\ UNCHANGED metrics
       ELSE /\ \E sp \in Round2(heap[filtered_hist].cols["Close"][1]),
                   cp \in Round2(Last(heap[filtered_hist].cols["Close"])),
                   hi \in Round2(MaxSeq(heap[filtered_hist].cols["High"])),
                   lo \in Round2(MinSeq(heap[filtered_hist].cols["Low"])) :
                 metrics' = [set |-> TRUE, start_price |-> sp,
                             current_price |-> cp, high |-> hi, low |-> lo]
            /\ pc' = "updated"
            /\ UNCHANGED exc
    /\ UNCHANGED <<page, selected, start_date, end_date, flags, heap, hist, filtered_hist,
                   confluence_levels, st_out, fetch_calls, call>>

\* line 264
Updated ==
    /\ pc = "updated"
    /\ st_out' = Append(st_out, "last_updated")
    /\ pc' = "done"
    /\ UNCHANGED <<page, selected, start_date, end_date, flags, heap, hist, filtered_hist,
                   confluence_levels, metrics, fetch_calls, exc, call>>

\* lines 266-267: except Exception
Except ==
    /\ pc = "except"
    /\ st_out' = Append(st_out, "error")
    /\ exc' = "none"
    /\ pc' = "done"
    /\ UNCHANGED <<page, selected, start_date, end_date, flags, heap, hist, filtered_hist,
                   confluence_levels, metrics, fetch_calls, call>>

Next ==
    \/ InfoPage
    \/ LoadTickers
    \/ FetchRaises
    \/ FetchIntraday
    \/ FetchDaily
    \/ Filter
    \/ CheckEmpty
    \/ Sidebar
    \/ CalcMA
    \/ CalcBB
    \/ CalcRSI
    \/ CalcMACD
    \/ Confluence
    \/ Summary
    \/ Updated
    \/ Except

Spec == Init /\ [][Next]_vars

(***************************************************************************)
(* The indicator functions applied on their own: a caller builds a frame,  *)
(* keeps the reference call.arg, calls the function and gets call.ret.     *)
(***************************************************************************)
FnCloses == {100, 101, 102}

\* a frame of daily bars with the given closes in cents
FrameOf(closes) ==
    [index |-> [i \in 1..Len(closes) |-> DateToTs(i - 1)],
     cols  |-> [c \in BaseColumns |->
                 [i \in 1..Len(closes) |->
                    CASE c = "Close" -> Price(closes[i])
                      [] c = "High"  -> Price(closes[i] + 1)
                      [] c = "Low"   -> Price(closes[i] - 1)]]]

\* every short series over FnCloses
ShortFrames ==
    {FrameOf(c) : c \in UNION {[1..n -> FnCloses] : n \in 0..MaxFnBars}}

\* the long series the provider model uses
LongFrames == {DailyBars(n, p) : n \in {RSIWindow, MA20Window, 30}, p \in Patterns}

InitFn ==
    /\ pc = "call"
    /\ \/ /\ heap \in {<<f>> : f \in ShortFrames}
          /\ call \in {[fn |-> "calculate_rsi", window |-> w, arg |-> 1, ret |-> 0] :
                          w \in 1..MaxFnWindow}
       \/ /\ heap \in {<<f>> : f \in LongFrames}
          /\ call \in {[fn |-> "calculate_rsi", window |-> RSIWindow, arg |-> 1, ret |-> 0],
                       [fn |-> "calculate_macd", window |-> MACDLong, arg |-> 1, ret |-> 0],
                       [fn |-> "calculate_bollinger_bands", window |-> BBWindow,
                        arg |-> 1, ret |-> 0]}
    /\ page = "Dashboard"
    /\ selected = "None"
    /\ start_date = 0
    /\ end_date = 0
    /\ flags = NoFlags
    /\ hist = 0
    /\ filtered_hist = 0
    /\ confluence_levels = NoLevels
    /\ metrics = NoMetrics
    /\ st_out = <<>>
    /\ fetch_calls = 0
    /\ exc = "none"

\* the function runs on the object it was given and returns it
Returns(frame) ==
    /\ heap' = [heap EXCEPT ![call.arg] = frame]
    /\ call' = [call EXCEPT !.ret = call.arg]
    /\ pc' = "returned"
    /\ UNCHANGED <<page, selected, start_date, end_date, flags, hist, filtered_hist,
                   confluence_levels, metrics, st_out, fetch_calls, exc>>

CallRsi ==
    /\ pc = "call"
    /\ call.fn = "calculate_rsi"
    /\ Returns(calculate_rsi(heap[call.arg], call.window))

CallMacd ==
    /\ pc = "call"
    /\ call.fn = "calculate_macd"
    /\ Returns(calculate_macd(heap[call.arg], MACDShort, MACDLong, MACDSignal))

CallBollinger ==
    /\ pc = "call"
    /\ call.fn = "calculate_bollinger_bands"
    /\ Returns(calculate_bollinger_bands(heap[call.arg], BBWindow, BBNumStd))

NextFn ==
    \/ CallRsi
    \/ CallMacd
    \/ CallBollinger

SpecFn == InitFn /\ [][NextFn]_vars

(***************************************************************************)
(* Properties of the run (specification Spec).                             *)
(***************************************************************************)
Reported(msg) == \E i \in 1..Len(st_out) : st_out[i] = msg

Indicators == {"MA20", "MA50", "BB", "RSI", "MACD"}

FlagOf(ind) ==
    CASE ind \in {"MA20", "MA50"} -> "show_ma"
      [] ind = "BB"   -> "show_bb"
      [] ind = "RSI"  -> "show_rsi"
      [] ind = "MACD" -> "show_macd"

ColsOf(ind) ==
    CASE ind = "MA20" -> {"MA20"}
      [] ind = "MA50" -> {"MA50"}
      [] ind = "BB"   -> {"BB_Upper", "BB_Lower"}
      [] ind = "RSI"  -> {"RSI"}
      [] ind = "MACD" -> {"MACD", "Signal"}

\* the minimum number of bars of an indicator: its (longest) window
MinBars(ind) ==
    CASE ind = "MA20" -> MA20Window
      [] ind = "MA50" -> MA50Window
      [] ind = "BB"   -> BBWindow
      [] ind = "RSI"  -> RSIWindow
      [] ind = "MACD" -> MACDLong

InsufficientReport(ind) ==
    CASE ind = "MA20" -> "insufficient_data_MA20"
      [] ind = "MA50" -> "insufficient_data_MA50"
      [] ind = "BB"   -> "insufficient_data_BB"
      [] ind = "RSI"  -> "insufficient_data_RSI"
      [] ind = "MACD" -> "insufficient_data_MACD"

Filtered == heap[filtered_hist]
IndicatorColumns == UNION {ColsOf(ind) : ind \in Indicators}
NoIndicatorColumn ==
    \A i \in 1..Len(heap) : DOMAIN heap[i].cols \cap IndicatorColumns = {}

\* the four indicator steps of the run are over
IndicatorsDone == pc \in {"confluence", "summary"} \/ metrics.set

\* C1: once the indicator steps are over, every enabled indicator whose
\* minimum number of bars exceeds the length of the filtered series has no
\* column in the filtered frame and was reported as unmet, and every
\* enabled indicator whose minimum is met has its columns.
C1_UnmetIndicatorAbsentAndReported ==
    IndicatorsDone =>
        \A ind \in Indicators :
            flags[FlagOf(ind)] =>
                IF MinBars(ind) > NRows(Filtered)
                THEN /\ ColsOf(ind) \cap DOMAIN Filtered.cols = {}
                     /\ Reported(InsufficientReport(ind))
                ELSE ColsOf(ind) \subseteq DOMAIN Filtered.cols

\* C2: in a run whose start date is after its end date yf.download is never
\* called, no indicator column is ever computed, and the finished run has
\* reported InvalidRange.
C2_InvalidRangeBeforeFetch ==
    start_date > end_date =>
        /\ fetch_calls = 0
        /\ NoIndicatorColumn
        /\ pc = "done" => Reported("error_invalid_range")

FilteredEmpty == filtered_hist # 0 /\ Empty(Filtered)

\* C3: when the series restricted to [start, end] has no bar, the run
\* computes no indicator column, no confluence list and no metric, no
\* exception is raised or reported, the run only goes on to its end, and
\* by then it has reported the no-data warning.
C3_NoDataShortCircuits ==
    FilteredEmpty =>
        /\ pc \in {"check_empty", "updated", "done"}
        /\ NoIndicatorColumn
        /\ ~confluence_levels.set
        /\ ~metrics.set
        /\ exc = "none"
        /\ ~Reported("error")
        /\ pc \in {"updated", "done"} => Reported("warning_no_data")

\* C3 witness: a finished run whose provider returned bars, none of them in
\* the range, and which reported the warning.
C3_Witness ==
    /\ pc = "done"
    /\ FilteredEmpty
    /\ ~Empty(heap[hist])
    /\ Reported("warning_no_data")

FetchFailed == fetch_calls > 0 /\ hist = 0
FetchedEmpty == hist # 0 /\ Empty(heap[hist])

\* C4: no exception escapes the run; a finished run whose fetch raised has
\* reported an error and no no-data warning, and a finished run whose fetch
\* returned an empty result has reported the no-data warning and no error.
C4_FailureAndEmptyDistinct ==
    /\ pc # "crashed"
    /\ pc = "done" =>
        /\ FetchFailed => Reported("error") /\ ~Reported("warning_no_data")
        /\ FetchedEmpty => Reported("warning_no_data") /\ ~Reported("error")

\* C4 witness: a finished run whose fetch raised and which reported the
\* error through the handler.
C4_Witness ==
    /\ pc = "done"
    /\ FetchFailed
    /\ Reported("error")
    /\ exc = "none"

\* C5: the confluence list is strictly ascending and no two of its entries
\* have the same value once rounded to 2 decimals.
C5_ConfluenceStrictlyAscending ==
    confluence_levels.set =>
        LET l == confluence_levels.levels
        IN  /\ \A i \in 1..(Len(l) - 1) : FLt(l[i], l[i + 1])
            /\ \A i, j \in 1..Len(l) :
                  i # j => Round2(l[i]) \cap Round2(l[j]) = {}

\* the latest values get_confluence_levels may use: the Close extremes and
\* the latest value of each enabled indicator with enough bars
AllowedLevels ==
    LET n == NRows(Filtered)
        latest(col) == Round2(Last(Filtered.cols[col]))
    IN  Round2(MaxSeq(Filtered.cols["Close"]))
        \cup Round2(MinSeq(Filtered.cols["Close"]))
        \cup (IF flags.show_ma /\ n >= MA20Window THEN latest("MA20") ELSE {})
        \cup (IF flags.show_ma /\ n >= MA50Window THEN latest("MA50") ELSE {})
        \cup (IF flags.show_bb /\ n >= BBWindow
              THEN latest("BB_Upper") \cup latest("BB_Lower") ELSE {})

\* C6: every entry of the confluence list is a defined number and is the
\* Close maximum, the Close minimum or the latest value of an enabled
\* indicator that has enough bars.
C6_ConfluenceEntriesDefined ==
    confluence_levels.set =>
        \A i \in 1..Len(confluence_levels.levels) :
            /\ IsNum(confluence_levels.levels[i])
            /\ confluence_levels.levels[i] \in AllowedLevels

\* C8: a filtered series of 1 to 4 bars never gets an indicator column.
C8_MinimalViewOnlyClose ==
    (filtered_hist # 0 /\ NRows(Filtered) \in 1..4) =>
        DOMAIN Filtered.cols = BaseColumns

\* C9: an indicator step leaves the frame object it is given as it was.
C9_CallerObjectUnchanged ==
    [][(pc \in {"ma", "bb", "rsi", "macd"}) => (Filtered' = Filtered)]_vars

(***************************************************************************)
(* Properties of calculate_rsi (specification SpecFn).                     *)
(***************************************************************************)
RsiReturned == pc = "returned" /\ call.fn = "calculate_rsi"
RsiOut == heap[call.ret].cols["RSI"]
\* the closes of the frame in cents
RsiCloses == [i \in 1..NRows(heap[call.ret]) |->
                CentsOf(heap[call.ret].cols["Close"][i])]
\* the bars of the rolling window that ends at bar i
RsiWindowAt(i) == (i - call.window + 1)..i
\* bar j closed above (below) the bar before it; the first bar did neither
ClosedUp(j) == j >= 2 /\ RsiCloses[j] > RsiCloses[j - 1]
ClosedDown(j) == j >= 2 /\ RsiCloses[j] < RsiCloses[j - 1]

\* C7: at every bar whose window is full, the RSI is exactly 100 when the
\* window holds no fall and at least one rise, and is undefined when it
\* holds neither; on a series of constant Close it is undefined everywhere.
C7_RsiSaturatesOrUndefined ==
    RsiReturned =>
        /\ \A i \in call.window..Len(RsiOut) :
              (\A j \in RsiWindowAt(i) : ~ClosedDown(j)) =>
                  IF \E j \in RsiWindowAt(i) : ClosedUp(j)
                  THEN RsiOut[i] = Num(100)
                  ELSE IsNaN(RsiOut[i])
        /\ (\A i, j \in 1..Len(RsiOut) : RsiCloses[i] = RsiCloses[j]) =>
              \A i \in 1..Len(RsiOut) : IsNaN(RsiOut[i])

\* C7 witness: a returned RSI column with a full-window bar at exactly 100
\* and a full-window bar left undefined by a flat window.
C7_Witness ==
    /\ RsiReturned
    /\ \E i \in call.window..Len(RsiOut) :
          /\ RsiOut[i] = Num(100)
          /\ \A j \in RsiWindowAt(i) : ~ClosedDown(j)
    /\ \E i \in call.window..Len(RsiOut) :
          /\ IsNaN(RsiOut[i])
          /\ \A j \in RsiWindowAt(i) : ~ClosedDown(j) /\ ~ClosedUp(j)

MinOf(a, b) == IF a < b THEN a ELSE b

\* C10 as stated: the RSI is undefined at each of the first w bars.
C10_FirstWindowBarsUndefined ==
    RsiReturned =>
        \A i \in 1..MinOf(call.window, Len(RsiOut)) : IsNaN(RsiOut[i])

\* C10 as amended: the RSI is undefined at each of the first w-1 bars, and
\* at bar w it is a number whenever the Close changed within the first w
\* bars.
C10_FirstWindowLessOneUndefined ==
    RsiReturned =>
        /\ \A i \in 1..MinOf(call.window - 1, Len(RsiOut)) : IsNaN(RsiOut[i])
        /\ (/\ Len(RsiOut) >= call.window
            /\ \E j \in 1..call.window : ClosedUp(j) \/ ClosedDown(j)) =>
              IsNum(RsiOut[call.window])

\* C10 witness: a returned RSI column, window at least 2, whose bar w is a
\* number and whose bars before it are undefined.
C10_Witness ==
    /\ RsiReturned
    /\ call.window >= 2
    /\ Len(RsiOut) >= call.window
    /\ IsNum(RsiOut[call.window])
    /\ \A i \in 1..(call.window - 1) : IsNaN(RsiOut[i])

====
